---- MODULE Spec2Model ----
(***************************************************************************)
(* A model of the image-qoi decoder: the header parser (QoiHeader,         *)
(* QoiDecoder), the streaming reader (QoiReader) with its 64-slot pixel    *)
(* cache and `latest` register, and the remainder buffer (QoiRemaining).   *)
(*                                                                         *)
(* The byte source is a finite sequence of bytes behind a BufReader; `pos` *)
(* is the number of bytes taken from it so far.  Every public operation is *)
(* one action; its private helpers are operators.                          *)
(***************************************************************************)
EXTENDS Integers, Sequences, FiniteSets, TLC

VARIABLES
    input,    \* the byte source handed to QoiDecoder::new (fixed for a run)
    pos,      \* bytes of `input` consumed so far
    stage,    \* "start" | "decoder" | "reader" | "failed"
    header,   \* QoiHeader of the decoder / reader (NoHeader before it exists)
    pixels,   \* QoiReader.pixels : [Rgba; 64]
    latest,   \* QoiReader.latest : Rgba
    remain,   \* QoiReader.remain : QoiRemaining
    out,      \* every byte delivered to the caller so far, in order
    buf,      \* the caller's buffer as the last read call left it
    ret,      \* what the last call returned
    chunk,    \* history: the chunk the current remainder was decoded from:
              \*   its opcode and tag, the source position of the tag, the
              \*   length of `out` and the value of `latest` before the decode
    saved     \* history: every cache write, in order, as [slot, pixel]

vars == <<input, pos, stage, header, pixels, latest, remain, out, buf, ret,
          chunk, saved>>

(***************************************************************************)
(* Bounds of the model.                                                    *)
(***************************************************************************)
\* the longest body is MaxChunks chunks (the last one possibly cut short)
MaxChunks == 2
\* the largest caller buffer handed to read when reading piecewise
MaxBuf == 5
\* a caller buffer that takes a chunk of up to 8 pixels of 4 bytes in one read
\* (a longer run takes several reads)
LargeBuf == 32
\* the literal chunks decoded before the chunk under study in SpecChunk
MaxPrefix == 2

(***************************************************************************)
(* 8-bit arithmetic.                                                       *)
(***************************************************************************)
Byte == 0 .. 255

wrapping_add(a, b) == (a + b) % 256

wrapping_sub(a, b) == (a + 256 - b) % 256

wrapping_mul(a, b) == (a * b) % 256

Min(a, b) == IF a < b THEN a ELSE b

(***************************************************************************)
(* Rgba: four byte lanes <<r, g, b, a>>.                                   *)
(***************************************************************************)
ZERO == <<0, 0, 0, 0>>

INIT == <<0, 0, 0, 255>>

alpha(p) == p[4]

\* a + b on u8: the sum modulo 256, or a panic in a build with overflow
\* checks when it does not fit
checked_add(x, b, overflow_checks) ==
    IF x.status # "ok" THEN x
    ELSE IF overflow_checks /\ x.n + b > 255
         THEN [status |-> "panic", n |-> 0]
         ELSE [status |-> "ok", n |-> (x.n + b) % 256]

\* Rgba::hash on u8 lanes.  The products wrap (wrapping_mul); the sums are
\* the plain `+` of u8, whose result on overflow depends on the build.
hash_u8(p, overflow_checks) ==
    LET s1 == checked_add([status |-> "ok", n |-> wrapping_mul(p[1], 3)],
                          wrapping_mul(p[2], 5), overflow_checks)
        s2 == checked_add(s1, wrapping_mul(p[3], 7), overflow_checks)
        s3 == checked_add(s2, wrapping_mul(p[4], 11), overflow_checks)
    IN  IF s3.status = "ok" THEN [status |-> "ok", n |-> s3.n % 64] ELSE s3

\* Rgba::hash as the reader uses it: every sum is taken modulo 256, which is
\* what `+` yields on the Wrapping lanes of reader.rs and in a build without
\* overflow checks.
hash(p) ==
    wrapping_add(wrapping_add(wrapping_add(wrapping_mul(p[1], 3),
                                           wrapping_mul(p[2], 5)),
                              wrapping_mul(p[3], 7)),
                 wrapping_mul(p[4], 11)) % 64

(***************************************************************************)
(* The byte source.  read_exact(k) either takes exactly k bytes or fails   *)
(* with UnexpectedEof having drained what was left.                        *)
(***************************************************************************)
read_exact(src, p, k) ==
    IF p + k <= Len(src)
    THEN [ok |-> TRUE, bytes |-> SubSeq(src, p + 1, p + k), pos |-> p + k]
    ELSE [ok |-> FALSE, bytes |-> <<>>, pos |-> Len(src)]

(***************************************************************************)
(* QoiHeader::try_from.  The 14 bytes are copied over a repr(C) struct:    *)
(* magic at 0..3, width at 4..7 and height at 8..11 as native u32,         *)
(* channels at 12, colorspace at 13.  The target is little-endian, so the  *)
(* native read is least-significant byte first and u32::from_be swaps.     *)
(***************************************************************************)
MAGIC == <<113, 111, 105, 102>>

native_u32(b) == b[1] + 256 * b[2] + 65536 * b[3] + 16777216 * b[4]

\* faulty variant of from_be: the value is left in native byte order
from_be_native(x) == x

from_be(x) ==
      16777216 * (x % 256)
    + 65536 * ((x \div 256) % 256)
    + 256 * ((x \div 65536) % 256)
    + ((x \div 16777216) % 256)

NoHeader == [magic |-> <<>>, width |-> 0, height |-> 0, channels |-> 0,
             colorspace |-> 0]

\* faulty variant of try_from: only the first byte of the magic is compared
try_from_first_byte(value) ==
    IF Len(value) < 14
    THEN [ok |-> FALSE, msg |-> "not enough bytes for header", header |-> NoHeader]
    ELSE LET this == [magic      |-> SubSeq(value, 1, 4),
                      width      |-> native_u32(SubSeq(value, 5, 8)),
                      height     |-> native_u32(SubSeq(value, 9, 12)),
                      channels   |-> value[13],
                      colorspace |-> value[14]]
         IN  IF this.magic[1] # MAGIC[1]
             THEN [ok |-> FALSE, msg |-> "qoif magic header not found",
                   header |-> NoHeader]
             ELSE [ok |-> TRUE, msg |-> "",
                   header |-> [this EXCEPT !.width = from_be(this.width),
                                           !.height = from_be(this.height)]]

try_from(value) ==
    IF Len(value) < 14
    THEN [ok |-> FALSE, msg |-> "not enough bytes for header", header |-> NoHeader]
    ELSE LET this == [magic      |-> SubSeq(value, 1, 4),
                      width      |-> native_u32(SubSeq(value, 5, 8)),
                      height     |-> native_u32(SubSeq(value, 9, 12)),
                      channels   |-> value[13],
                      colorspace |-> value[14]]
         IN  IF this.magic # MAGIC
             THEN [ok |-> FALSE, msg |-> "qoif magic header not found",
                   header |-> NoHeader]
             ELSE [ok |-> TRUE, msg |-> "",
                   header |-> [this EXCEPT !.width = from_be(this.width),
                                           !.height = from_be(this.height)]]

(***************************************************************************)
(* QoiRemaining: [bytes, chans, count].                                    *)
(***************************************************************************)
rotate_left(s, k) ==
    [i \in 1 .. Len(s) |-> s[((i - 1 + k) % Len(s)) + 1]]

\* buf[i..j].copy_from_slice(src), 0-based half-open range as in the code
copy_from_slice(b, i, j, src) ==
    [k \in 1 .. Len(b) |-> IF k > i /\ k <= j THEN src[k - i] ELSE b[k]]

\* the loop of QoiRemaining::read: whole copies of the pattern while the
\* next one ends before n; yields the buffer and the index i it stopped at
RECURSIVE copy_loop(_, _, _, _, _)
copy_loop(b, chans, n, i, bf) ==
    LET j == i + chans
    IN  IF j >= n
        THEN [i |-> i, buf |-> bf]
        ELSE copy_loop(b, chans, n, j, copy_from_slice(bf, i, j, b))

\* faulty variant of remaining_read: the pattern is not rotated after a partial copy
remaining_read_no_rotate(rem, bf) ==
    LET b == SubSeq(rem.bytes, 1, rem.chans)
        n == Min(Len(bf), rem.count)
    IN  IF n = 0
        THEN [n |-> 0, buf |-> bf, remain |-> rem]
        ELSE LET l    == copy_loop(b, rem.chans, n, 0, bf)
                 r    == n - l.i
                 bf2  == IF r > 0
                         THEN copy_from_slice(l.buf, l.i, n, SubSeq(b, 1, r))
                         ELSE l.buf
             IN  [n      |-> n,
                  buf    |-> bf2,
                  remain |-> [rem EXCEPT !.count = rem.count - n]]

\* faulty variant of remaining_read: after a partial copy the pattern is rotated
\* to the right instead of to the left
remaining_read_rotate_right(rem, bf) ==
    LET b == SubSeq(rem.bytes, 1, rem.chans)
        n == Min(Len(bf), rem.count)
    IN  IF n = 0
        THEN [n |-> 0, buf |-> bf, remain |-> rem]
        ELSE LET l    == copy_loop(b, rem.chans, n, 0, bf)
                 r    == n - l.i
                 bf2  == IF r > 0
                         THEN copy_from_slice(l.buf, l.i, n, SubSeq(b, 1, r))
                         ELSE l.buf
                 b2   == IF r > 0 THEN rotate_left(b, rem.chans - r) ELSE b
             IN  [n      |-> n,
                  buf    |-> bf2,
                  remain |-> [bytes |-> b2 \o SubSeq(rem.bytes, rem.chans + 1, 4),
                              chans |-> rem.chans,
                              count |-> rem.count - n]]

remaining_read(rem, bf) ==
    LET b == SubSeq(rem.bytes, 1, rem.chans)
        n == Min(Len(bf), rem.count)
    IN  IF n = 0
        THEN [n |-> 0, buf |-> bf, remain |-> rem]
        ELSE LET l    == copy_loop(b, rem.chans, n, 0, bf)
                 r    == n - l.i
                 bf2  == IF r > 0
                         THEN copy_from_slice(l.buf, l.i, n, SubSeq(b, 1, r))
                         ELSE l.buf
                 b2   == IF r > 0 THEN rotate_left(b, r) ELSE b
             IN  [n      |-> n,
                  buf    |-> bf2,
                  remain |-> [bytes |-> b2 \o SubSeq(rem.bytes, rem.chans + 1, 4),
                              chans |-> rem.chans,
                              count |-> rem.count - n]]

(***************************************************************************)
(* QoiReader: the chunk decoder.  A decode yields the reader's new fields  *)
(* and the fresh remainder, or an I/O error that leaves the fields alone.  *)
(***************************************************************************)
\* faulty variant of save_pixel: a slot that holds a pixel is not overwritten
save_pixel_keep(px, pixel, chans) ==
    [latest |-> pixel,
     pixels |-> IF px[hash(pixel)] = ZERO THEN [px EXCEPT ![hash(pixel)] = pixel] ELSE px,
     slot   |-> hash(pixel),
     remain |-> [bytes |-> pixel, chans |-> chans, count |-> chans]]

\* faulty variant of save_pixel: the pixel is not stored in the cache
save_pixel_no_store(px, pixel, chans) ==
    [latest |-> pixel,
     pixels |-> px,
     slot   |-> hash(pixel),
     remain |-> [bytes |-> pixel, chans |-> chans, count |-> chans]]

save_pixel(px, pixel, chans) ==
    [latest |-> pixel,
     pixels |-> [px EXCEPT ![hash(pixel)] = pixel],
     slot   |-> hash(pixel),
     remain |-> [bytes |-> pixel, chans |-> chans, count |-> chans]]

decode_ok(p, op, tag, s) ==
    [ok |-> TRUE, pos |-> p, op |-> op, tag |-> tag, latest |-> s.latest,
     pixels |-> s.pixels, remain |-> s.remain, saves |-> <<[slot |-> s.slot, pixel |-> s.latest]>>]

decode_err(p, px, lt, rem) ==
    [ok |-> FALSE, pos |-> p, op |-> "none", tag |-> 0, latest |-> lt,
     pixels |-> px, remain |-> rem, saves |-> <<>>]

\* faulty variant of read_rgba: the bytes are read straight into `latest`, so
\* a short read leaves the bytes that were there in its first lanes
read_rgba_in_place(src, p, px, lt, rem, chans) ==
    LET r   == read_exact(src, p, 4)
        got == SubSeq(src, p + 1, Len(src))
    IN  IF ~r.ok
        THEN decode_err(r.pos, px, [k \in 1 .. 4 |-> IF k <= Len(got) THEN got[k] ELSE lt[k]],
                        rem)
        ELSE decode_ok(r.pos, "RGBA", 255, save_pixel(px, r.bytes, chans))

read_rgba(src, p, px, lt, rem, chans) ==
    LET r == read_exact(src, p, 4)
    IN  IF ~r.ok THEN decode_err(r.pos, px, lt, rem)
        ELSE decode_ok(r.pos, "RGBA", 255, save_pixel(px, r.bytes, chans))

\* faulty variant of read_rgb: the alpha lane is opaque instead of carried over
read_rgb_opaque(src, p, px, lt, rem, chans) ==
    LET r == read_exact(src, p, 3)
    IN  IF ~r.ok THEN decode_err(r.pos, px, lt, rem)
        ELSE decode_ok(r.pos, "RGB", 254,
                       save_pixel(px, r.bytes \o <<255>>, chans))

read_rgb(src, p, px, lt, rem, chans) ==
    LET r == read_exact(src, p, 3)
    IN  IF ~r.ok THEN decode_err(r.pos, px, lt, rem)
        ELSE decode_ok(r.pos, "RGB", 254,
                       save_pixel(px, r.bytes \o <<alpha(lt)>>, chans))

\* faulty variant of decode_run: the run length is the low six bits, without the + 1
decode_run_short(p, tag, px, lt, chans) ==
    LET run == tag % 64
    IN  [ok |-> TRUE, pos |-> p, op |-> "RUN", tag |-> tag, latest |-> lt,
         pixels |-> px,
         remain |-> [bytes |-> lt, chans |-> chans, count |-> run * chans],
         saves |-> <<>>]

decode_run(p, tag, px, lt, chans) ==
    LET run == (tag % 64) + 1
    IN  [ok |-> TRUE, pos |-> p, op |-> "RUN", tag |-> tag, latest |-> lt,
         pixels |-> px,
         remain |-> [bytes |-> lt, chans |-> chans, count |-> run * chans],
         saves |-> <<>>]

\* faulty variant of decode_luma: the green difference is not added to the red
\* and blue differences
decode_luma_no_bias(src, p, tag, px, lt, rem, chans) ==
    LET dg == wrapping_sub(tag % 64, 32)
        t2 == read_exact(src, p, 1)
    IN  IF ~t2.ok THEN decode_err(t2.pos, px, lt, rem)
        ELSE LET dr_db == t2.bytes[1]
                 dr    == wrapping_sub(dr_db \div 16, 8)
                 db    == wrapping_sub(dr_db % 16, 8)
             IN  decode_ok(t2.pos, "LUMA", tag,
                           save_pixel(px, <<wrapping_add(lt[1], dr),
                                            wrapping_add(lt[2], dg),
                                            wrapping_add(lt[3], db),
                                            lt[4]>>, chans))

decode_luma(src, p, tag, px, lt, rem, chans) ==
    LET dg == wrapping_sub(tag % 64, 32)
        t2 == read_exact(src, p, 1)
    IN  IF ~t2.ok THEN decode_err(t2.pos, px, lt, rem)
        ELSE LET dr_db == t2.bytes[1]
                 dr_dg == wrapping_sub(dr_db \div 16, 8)
                 db_dg == wrapping_sub(dr_db % 16, 8)
                 dr    == wrapping_add(dr_dg, dg)
                 db    == wrapping_add(db_dg, dg)
             IN  decode_ok(t2.pos, "LUMA", tag,
                           save_pixel(px, <<wrapping_add(lt[1], dr),
                                            wrapping_add(lt[2], dg),
                                            wrapping_add(lt[3], db),
                                            lt[4]>>, chans))

saturating_add_signed(a, d) ==
    LET x == IF d >= 128 THEN a + d - 256 ELSE a + d
    IN  IF x < 0 THEN 0 ELSE IF x > 255 THEN 255 ELSE x

\* faulty variant of decode_diff: the lanes saturate instead of wrapping
decode_diff_saturating(p, tag, px, lt, chans) ==
    LET dr == wrapping_sub((tag \div 16) % 4, 2)
        dg == wrapping_sub((tag \div 4) % 4, 2)
        db == wrapping_sub(tag % 4, 2)
    IN  decode_ok(p, "DIFF", tag,
                  save_pixel(px, <<saturating_add_signed(lt[1], dr),
                                   saturating_add_signed(lt[2], dg),
                                   saturating_add_signed(lt[3], db),
                                   lt[4]>>, chans))

decode_diff(p, tag, px, lt, chans) ==
    LET dr == wrapping_sub((tag \div 16) % 4, 2)
        dg == wrapping_sub((tag \div 4) % 4, 2)
        db == wrapping_sub(tag % 4, 2)
    IN  decode_ok(p, "DIFF", tag,
                  save_pixel(px, <<wrapping_add(lt[1], dr),
                                   wrapping_add(lt[2], dg),
                                   wrapping_add(lt[3], db),
                                   lt[4]>>, chans))

\* faulty variant of decode_index: the index is masked to 5 bits
decode_index_mask5(p, tag, px, chans) ==
    LET index == tag % 32
        pixel == px[index]
    IN  decode_ok(p, "INDEX", tag, save_pixel(px, pixel, chans))

decode_index(p, tag, px, chans) ==
    LET index == tag % 64
        pixel == px[index]
    IN  decode_ok(p, "INDEX", tag, save_pixel(px, pixel, chans))

\* faulty variant of load_next_pixel: the RUN pattern is tested before the
\* exact tags 0xFF and 0xFE
load_next_pixel_run_first(src, p, px, lt, rem, chans) ==
    LET t == read_exact(src, p, 1)
    IN  IF ~t.ok THEN decode_err(t.pos, px, lt, rem)
        ELSE LET tag == t.bytes[1]
             IN  CASE tag \div 64 = 3 -> decode_run(t.pos, tag, px, lt, chans)
                   [] tag \div 64 = 2 -> decode_luma(src, t.pos, tag, px, lt, rem, chans)
                   [] tag \div 64 = 1 -> decode_diff(t.pos, tag, px, lt, chans)
                   [] OTHER -> decode_index(t.pos, tag, px, chans)

load_next_pixel(src, p, px, lt, rem, chans) ==
    LET t == read_exact(src, p, 1)
    IN  IF ~t.ok THEN decode_err(t.pos, px, lt, rem)
        ELSE LET tag == t.bytes[1]
             IN  CASE tag = 255 -> read_rgba(src, t.pos, px, lt, rem, chans)
                   [] tag = 254 -> read_rgb(src, t.pos, px, lt, rem, chans)
                   [] tag < 254 /\ tag \div 64 = 3 -> decode_run(t.pos, tag, px, lt, chans)
                   [] tag \div 64 = 2 -> decode_luma(src, t.pos, tag, px, lt, rem, chans)
                   [] tag \div 64 = 1 -> decode_diff(t.pos, tag, px, lt, chans)
                   [] OTHER -> decode_index(t.pos, tag, px, chans)

(***************************************************************************)
(* Values returned to the caller.                                          *)
(***************************************************************************)
NoRet == [call |-> "none", status |-> "ok", msg |-> "", n |-> 0,
          dims |-> <<>>, color |-> ""]

NoChunk == [op |-> "none", tag |-> 0, at |-> 0, start |-> 0, before |-> INIT]

\* a caller buffer of length L whose bytes the reader has not written
Untouched == -1

fresh_buf(L) == [k \in 1 .. L |-> Untouched]

color_type_of(h) == "Rgba8"

dimensions_of(h) == <<h.width, h.height>>

(***************************************************************************)
(* QoiReader::new and QoiReader::read as functions of the reader's fields. *)
(* A reader is [pos, pixels, latest, remain] with the caller's view        *)
(* [out, buf, ret] and the history [chunk, saved].                         *)
(***************************************************************************)
QoiReader_new(p, chans) ==
    [pos    |-> p,
     pixels |-> [i \in 0 .. 63 |-> ZERO],
     latest |-> INIT,
     remain |-> [bytes |-> <<0, 0, 0, 0>>, chans |-> chans, count |-> 0],
     out    |-> <<>>,
     buf    |-> <<>>,
     ret    |-> [NoRet EXCEPT !.call = "into_reader"],
     chunk  |-> NoChunk,
     saved  |-> <<>>]

\* faulty variant of read: the next chunk is decoded on every call, whether or
\* not bytes of the current one are still owed
read_always_decodes(st, src, chans, L) ==
    LET d == load_next_pixel(src, st.pos, st.pixels, st.latest, st.remain, chans)
    IN  IF ~d.ok
        THEN [st EXCEPT !.pos = d.pos,
                        !.pixels = d.pixels,
                        !.latest = d.latest,
                        !.saved = st.saved \o d.saves,
                        !.buf = fresh_buf(L),
                        !.ret = [NoRet EXCEPT !.call = "read",
                                              !.status = "io_error",
                                              !.msg = "UnexpectedEof"]]
        ELSE LET r == remaining_read(d.remain, fresh_buf(L))
             IN  [pos    |-> d.pos,
                  pixels |-> d.pixels,
                  latest |-> d.latest,
                  remain |-> r.remain,
                  out    |-> st.out \o SubSeq(r.buf, 1, r.n),
                  buf    |-> r.buf,
                  ret    |-> [NoRet EXCEPT !.call = "read", !.n = r.n],
                  chunk  |-> [op |-> d.op, tag |-> d.tag, at |-> st.pos,
                              start |-> Len(st.out), before |-> st.latest],
                  saved  |-> st.saved \o d.saves]

\* faulty variant of read: a call that decodes a chunk returns 0 and leaves
\* all of the chunk's bytes for the calls after it
read_lazy(st, src, chans, L) ==
    LET fresh == st.remain.count = 0
        d == IF fresh
             THEN load_next_pixel(src, st.pos, st.pixels, st.latest, st.remain, chans)
             ELSE [ok |-> TRUE, pos |-> st.pos, op |-> "none", tag |-> 0,
                   latest |-> st.latest, pixels |-> st.pixels,
                   remain |-> st.remain, saves |-> <<>>]
    IN  IF ~d.ok
        THEN [st EXCEPT !.pos = d.pos,
                        !.pixels = d.pixels,
                        !.latest = d.latest,
                        !.saved = st.saved \o d.saves,
                        !.buf = fresh_buf(L),
                        !.ret = [NoRet EXCEPT !.call = "read",
                                              !.status = "io_error",
                                              !.msg = "UnexpectedEof"]]
        ELSE LET r == remaining_read(d.remain, fresh_buf(IF fresh THEN 0 ELSE L))
             IN  [pos    |-> d.pos,
                  pixels |-> d.pixels,
                  latest |-> d.latest,
                  remain |-> r.remain,
                  out    |-> st.out \o SubSeq(r.buf, 1, r.n),
                  buf    |-> IF fresh THEN fresh_buf(L) ELSE r.buf,
                  ret    |-> [NoRet EXCEPT !.call = "read", !.n = r.n],
                  chunk  |-> IF d.op # "none"
                             THEN [op |-> d.op, tag |-> d.tag, at |-> st.pos,
                                   start |-> Len(st.out), before |-> st.latest]
                             ELSE st.chunk,
                  saved  |-> st.saved \o d.saves]

read(st, src, chans, L) ==
    LET d == IF st.remain.count = 0
             THEN load_next_pixel(src, st.pos, st.pixels, st.latest, st.remain, chans)
             ELSE [ok |-> TRUE, pos |-> st.pos, op |-> "none", tag |-> 0,
                   latest |-> st.latest, pixels |-> st.pixels,
                   remain |-> st.remain, saves |-> <<>>]
    IN  IF ~d.ok
        THEN [st EXCEPT !.pos = d.pos,
                        !.pixels = d.pixels,
                        !.latest = d.latest,
                        !.saved = st.saved \o d.saves,
                        !.buf = fresh_buf(L),
                        !.ret = [NoRet EXCEPT !.call = "read",
                                              !.status = "io_error",
                                              !.msg = "UnexpectedEof"]]
        ELSE LET r == remaining_read(d.remain, fresh_buf(L))
             IN  [pos    |-> d.pos,
                  pixels |-> d.pixels,
                  latest |-> d.latest,
                  remain |-> r.remain,
                  out    |-> st.out \o SubSeq(r.buf, 1, r.n),
                  buf    |-> r.buf,
                  ret    |-> [NoRet EXCEPT !.call = "read", !.n = r.n],
                  chunk  |-> IF d.op # "none"
                             THEN [op |-> d.op, tag |-> d.tag, at |-> st.pos,
                                   start |-> Len(st.out), before |-> st.latest]
                             ELSE st.chunk,
                  saved  |-> st.saved \o d.saves]

\* k read calls, each with a buffer of LargeBuf bytes
RECURSIVE read_chunks(_, _, _, _)
read_chunks(st, src, chans, k) ==
    IF k = 0 THEN st
    ELSE read_chunks(read(st, src, chans, LargeBuf), src, chans, k - 1)

\* read calls with a buffer of LargeBuf bytes until one fails
RECURSIVE read_to_end(_, _, _)
read_to_end(st, src, chans) ==
    LET s == read(st, src, chans, LargeBuf)
    IN  IF s.ret.status # "ok" THEN s ELSE read_to_end(s, src, chans)

(***************************************************************************)
(* The inputs of Spec: whole byte sources, header first.                   *)
(***************************************************************************)
\* chunks a body is made of
ChunkSet ==
    { <<255, 1, 2, 3, 4>>,        \* RGBA literal (1,2,3,4), slot 14
      <<254, 10, 20, 30>>,        \* RGB literal
      <<192>>,                    \* RUN 1
      <<193>>,                    \* RUN 2
      <<160, 136>>,               \* LUMA dg = 0, dr = 0, db = 0
      <<122>>,                    \* DIFF dr = +1, dg = 0, db = 0
      <<14>> }                    \* INDEX 14

\* a chunk cut short: every proper non-empty prefix of a chunk
Partials ==
    UNION { { SubSeq(c, 1, k) : k \in 1 .. Len(c) - 1 } : c \in ChunkSet }

RECURSIVE BodiesOf(_)
BodiesOf(n) ==
    IF n = 0 THEN { <<>> }
    ELSE LET s == BodiesOf(n - 1)
         IN  s \cup { b \o c : b \in s, c \in ChunkSet }

Bodies ==
    BodiesOf(MaxChunks)
    \cup { b \o p : b \in BodiesOf(MaxChunks - 1), p \in Partials }

header_bytes(magic, w, h, ch, cs) == magic \o w \o h \o <<ch, cs>>

\* the headers in front of the bodies: width 2, height 1
BodyHeaders == { header_bytes(MAGIC, <<0, 0, 0, 2>>, <<0, 0, 0, 1>>, ch, 0) : ch \in {3, 4} }

\* headers of every kind, in front of a short tail
Magics == { MAGIC, <<113, 111, 105, 103>>, <<81, 111, 105, 102>>, <<0, 0, 0, 0>> }

\* (the first and last byte stay below 128: the model's integers are 32-bit signed)
Widths == { <<0, 0, 0, 1>>, <<0, 0, 1, 2>>, <<1, 2, 3, 4>>, <<127, 255, 255, 127>> }

Heights == { <<0, 0, 0, 1>>, <<0, 1, 0, 0>>, <<4, 3, 2, 1>> }

AnyHeaders ==
    { header_bytes(m, w, h, ch, cs) :
        m \in Magics, w \in Widths, h \in Heights, ch \in {3, 4}, cs \in {0, 1} }

Tails == { <<>>, <<193>> }

\* sources that end inside the header
ShortSources ==
    { SubSeq(header_bytes(m, <<0, 0, 1, 2>>, <<0, 0, 0, 1>>, 4, 0), 1, k) :
        m \in Magics, k \in 0 .. 13 }

\* a whole 1 x 1 file as an encoder writes it: one literal, then the format's
\* 8-byte end marker
EndMarker == <<0, 0, 0, 0, 0, 0, 0, 1>>

MarkedFiles ==
    { header_bytes(MAGIC, <<0, 0, 0, 1>>, <<0, 0, 0, 1>>, ch, 0)
      \o <<254, 10, 20, 30>> \o EndMarker : ch \in {3, 4} }

Inputs ==
    { h \o b : h \in BodyHeaders, b \in Bodies }
    \cup MarkedFiles
    \cup { h \o t : h \in AnyHeaders, t \in Tails }
    \cup ShortSources

(***************************************************************************)
(* The inputs of SpecChunk: a reader that has decoded and delivered up to  *)
(* MaxPrefix RGBA literals, in front of one more chunk (whole or cut).     *)
(***************************************************************************)
literal(p) == <<255>> \o p

\* pixels for the arithmetic of DIFF and LUMA
Lanes == {0, 1, 255}

WidePixels == { <<r, g, b, a>> : r \in Lanes, g \in Lanes, b \in Lanes, a \in {0, 255} }

\* pixels for the cache: two that share slot 50, one in slot 0
CachePixels == { <<255, 0, 0, 255>>, <<3, 2, 6, 255>>, <<64, 0, 0, 0>> }

RECURSIVE PrefixesOf(_)
PrefixesOf(n) ==
    IF n = 0 THEN { <<>> }
    ELSE LET s == PrefixesOf(n - 1)
         IN  s \cup { b \o <<p>> : b \in s, p \in CachePixels }

DiffChunks == { <<t>> : t \in 64 .. 127 }

LumaChunks == { <<t, d>> : t \in {128, 129, 159, 160, 161, 190, 191},
                           d \in {0, 15, 121, 136, 240, 255} }

IndexChunks == { <<t>> : t \in 0 .. 63 }

\* runs of 1, 2, 3 and 8 pixels
RunChunks == { <<192>>, <<193>>, <<194>>, <<199>> }

LiteralChunks == { <<255, 1, 2, 3, 4>>, <<254, 10, 20, 30>> }

CutChunks == { <<255>>, <<255, 1>>, <<255, 1, 2>>, <<255, 1, 2, 3>>,
               <<254>>, <<254, 10>>, <<254, 10, 20>>, <<160>>, <<>> }

\* every tag value, followed by four more bytes
TagChunks == { <<t, 1, 2, 3, 4>> : t \in 0 .. 255 }

RECURSIVE flatten(_)
flatten(ps) == IF ps = <<>> THEN <<>> ELSE literal(Head(ps)) \o flatten(Tail(ps))

\* [prefix |-> the literals decoded so far, last |-> the chunk to decode]
ChunkCases ==
    { [prefix |-> <<p>>, last |-> c] : p \in WidePixels, c \in DiffChunks \cup LumaChunks }
    \cup { [prefix |-> ps, last |-> c] :
             ps \in PrefixesOf(MaxPrefix),
             c \in IndexChunks \cup RunChunks \cup LiteralChunks \cup CutChunks }
    \cup { [prefix |-> <<>>, last |-> c] : c \in TagChunks }

(***************************************************************************)
(* The state machine.                                                      *)
(***************************************************************************)
Init ==
    /\ input \in Inputs
    /\ pos = 0
    /\ stage = "start"
    /\ header = NoHeader
    /\ pixels = [i \in 0 .. 63 |-> ZERO]
    /\ latest = INIT
    /\ remain = [bytes |-> <<0, 0, 0, 0>>, chans |-> 0, count |-> 0]
    /\ out = <<>>
    /\ buf = <<>>
    /\ ret = NoRet
    /\ chunk = NoChunk
    /\ saved = <<>>

\* QoiDecoder::new
QoiDecoder_new ==
    /\ stage = "start"
    /\ LET r == read_exact(input, pos, 14)
       IN  /\ pos' = r.pos
           /\ IF ~r.ok
              THEN /\ stage' = "failed"
                   /\ header' = header
                   /\ ret' = [NoRet EXCEPT !.call = "new", !.status = "io_error",
                                           !.msg = "UnexpectedEof"]
              ELSE LET h == try_from(r.bytes)
                   IN  IF ~h.ok
                       THEN /\ stage' = "failed"
                            /\ header' = header
                            /\ ret' = [NoRet EXCEPT !.call = "new",
                                                    !.status = "decoding_error",
                                                    !.msg = h.msg]
                       ELSE /\ stage' = "decoder"
                            /\ header' = h.header
                            /\ ret' = [NoRet EXCEPT !.call = "new"]
    /\ UNCHANGED <<input, pixels, latest, remain, out, buf, chunk, saved>>

\* QoiDecoder::dimensions
dimensions ==
    /\ stage = "decoder"
    /\ ret' = [NoRet EXCEPT !.call = "dimensions", !.dims = dimensions_of(header)]
    /\ UNCHANGED <<input, pos, stage, header, pixels, latest, remain, out, buf,
                   chunk, saved>>

\* QoiDecoder::color_type
color_type ==
    /\ stage = "decoder"
    /\ ret' = [NoRet EXCEPT !.call = "color_type", !.color = color_type_of(header)]
    /\ UNCHANGED <<input, pos, stage, header, pixels, latest, remain, out, buf,
                   chunk, saved>>

reader == [pos |-> pos, pixels |-> pixels, latest |-> latest, remain |-> remain,
           out |-> out, buf |-> buf, ret |-> ret, chunk |-> chunk, saved |-> saved]

become(st) ==
    /\ pos' = st.pos
    /\ pixels' = st.pixels
    /\ latest' = st.latest
    /\ remain' = st.remain
    /\ out' = st.out
    /\ buf' = st.buf
    /\ ret' = st.ret
    /\ chunk' = st.chunk
    /\ saved' = st.saved

\* QoiDecoder::into_reader, QoiReader::new
into_reader ==
    /\ stage = "decoder"
    /\ stage' = "reader"
    /\ \E st \in { QoiReader_new(pos, header.channels) } : become(st)
    /\ UNCHANGED <<input, header>>

\* QoiReader::read with a caller buffer of length L
read_with(L) ==
    /\ stage = "reader"
    /\ \E st \in { read(reader, input, header.channels, L) } : become(st)
    /\ UNCHANGED <<input, stage, header>>

\* a caller that reads piecewise, with buffers of 0 .. MaxBuf bytes
QoiReader_read == \E L \in 0 .. MaxBuf : read_with(L)

Next ==
    \/ QoiDecoder_new
    \/ dimensions
    \/ color_type
    \/ into_reader
    \/ QoiReader_read

Spec == Init /\ [][Next]_vars

(***************************************************************************)
(* SpecChunk: one chunk decoded by a reader in the middle of a stream; the *)
(* caller reads with a buffer that holds the whole chunk.                  *)
(***************************************************************************)
InitChunk ==
    \E c \in ChunkCases, ch \in {3, 4} :
        \E src \in { header_bytes(MAGIC, <<0, 0, 0, 2>>, <<0, 0, 0, 1>>, ch, 0)
                      \o flatten(c.prefix) \o c.last } :
            \E st \in { read_chunks(QoiReader_new(14, ch), src, ch, Len(c.prefix)) } :
                /\ input = src
                /\ stage = "reader"
                /\ header = try_from(SubSeq(src, 1, 14)).header
                /\ pos = st.pos
                /\ pixels = st.pixels
                /\ latest = st.latest
                /\ remain = st.remain
                /\ out = st.out
                /\ buf = st.buf
                /\ ret = st.ret
                /\ chunk = st.chunk
                /\ saved = st.saved

QoiReader_read_large == read_with(LargeBuf)

NextChunk == QoiReader_read_large

SpecChunk == InitChunk /\ [][NextChunk]_vars

(***************************************************************************)
(* Rgba::hash on its own: one pixel, hashed in either build.               *)
(***************************************************************************)
HashLanes == {0, 1, 85, 255}

HashPixels == { <<r, g, b, a>> : r \in HashLanes, g \in HashLanes,
                                 b \in HashLanes, a \in HashLanes }

InitHash ==
    /\ input = <<>>
    /\ pos = 0
    /\ stage = "pixel"
    /\ header = NoHeader
    /\ pixels = [i \in 0 .. 63 |-> ZERO]
    /\ latest \in HashPixels
    /\ remain = [bytes |-> <<0, 0, 0, 0>>, chans |-> 0, count |-> 0]
    /\ out = <<>>
    /\ buf = <<>>
    /\ ret = NoRet
    /\ chunk = NoChunk
    /\ saved = <<>>

\* Rgba::hash of `latest`
Rgba_hash ==
    /\ stage = "pixel"
    /\ \E overflow_checks \in BOOLEAN :
         \E h \in { hash_u8(latest, overflow_checks) } :
            ret' = [NoRet EXCEPT !.call = "hash",
                                 !.status = h.status,
                                 !.msg = IF h.status = "panic"
                                         THEN "attempt to add with overflow" ELSE "",
                                 !.n = h.n]
    /\ UNCHANGED <<input, pos, stage, header, pixels, latest, remain, out, buf,
                   chunk, saved>>

NextHash == Rgba_hash

SpecHash == InitHash /\ [][NextHash]_vars

(***************************************************************************)
(* Properties.                                                             *)
(***************************************************************************)
IsPrefix(s, t) == Len(s) <= Len(t) /\ SubSeq(t, 1, Len(s)) = s

\* lanes 1 .. chans of pixel p, repeated n times
RECURSIVE Copies(_, _, _)
Copies(p, chans, n) ==
    IF n = 0 THEN <<>> ELSE SubSeq(p, 1, chans) \o Copies(p, chans, n - 1)

\* what a caller reading the same source with large buffers is given
large_read_out ==
    read_to_end(QoiReader_new(14, header.channels), input, header.channels).out

\* C1: whatever the sizes of the buffers the caller reads with, the bytes
\* delivered so far are the first bytes a caller reading with one large buffer
\* per call is given, and all of them once the source is exhausted.
C1_ChunkedReadEquivalence ==
    stage = "reader" =>
        /\ IsPrefix(out, large_read_out)
        /\ (ret.call = "read" /\ ret.status = "io_error" => out = large_read_out)

\* C1 witness: a one-byte read has left a RUN part delivered, past the first
\* pixel of the run and short of its end.
C1_Witness ==
    /\ stage = "reader"
    /\ chunk.op = "RUN"
    /\ Len(buf) = 1
    /\ ret.n = 1
    /\ remain.count > 0
    /\ Len(out) > chunk.start + header.channels

\* C2 (as claimed): the reader never delivers the bytes of more than
\* width * height pixels.
C2_NoMoreThanWidthTimesHeight ==
    (stage = "reader" /\ header.width <= 255 /\ header.height <= 255) =>
        Len(out) <= header.width * header.height * header.channels

\* C3: the read call that decodes a RUN tag of length n = (tag & 63) + 1 leaves
\* every cache slot and `latest` as they were, owes channels * n bytes, and a
\* buffer that holds them all is given n copies of `latest`.
C3_RunCorrect ==
    [][ (stage = "reader" /\ chunk'.op = "RUN" /\ chunk'.at = pos /\ pos' = pos + 1
         /\ remain.count = 0)
        => LET n == (chunk'.tag % 64) + 1
           IN  /\ pixels' = pixels
               /\ latest' = latest
               /\ saved' = saved
               /\ remain'.count + ret'.n = header.channels * n
               /\ (Len(buf') >= header.channels * n
                   => out' = out \o Copies(latest, header.channels, n)) ]_vars

\* C3 witness: a run of 8 of a pixel other than the initial one, all delivered.
C3_Witness ==
    /\ stage = "reader"
    /\ chunk.op = "RUN"
    /\ chunk.tag = 199
    /\ latest # INIT
    /\ remain.count = 0
    /\ out = SubSeq(out, 1, chunk.start) \o Copies(latest, header.channels, 8)

\* the pixel of the last cache write to slot i in log, ZERO when there is none
MostRecent(log, i) ==
    LET S == { k \in 1 .. Len(log) : log[k].slot = i }
    IN  IF S = {} THEN ZERO
        ELSE log[CHOOSE k \in S : \A j \in S : j <= k].pixel

\* C4: after an INDEX tag with value i is decoded, `latest` is the pixel most
\* recently saved into cache slot i before the tag (all zero when none was),
\* and the bytes delivered for the chunk are its lanes.
C4_IndexCorrect ==
    (stage = "reader" /\ chunk.op = "INDEX") =>
        LET i == chunk.tag % 64
            p == MostRecent(SubSeq(saved, 1, Len(saved) - 1), i)
            k == header.channels - remain.count
        IN  /\ latest = p
            /\ Len(out) = chunk.start + k
            /\ SubSeq(out, chunk.start + 1, Len(out)) = SubSeq(p, 1, k)

\* C4 witness: two different pixels were saved into slot 50, and INDEX 50
\* yields the second.
C4_Witness ==
    /\ stage = "reader"
    /\ chunk.op = "INDEX"
    /\ chunk.tag = 50
    /\ Len(saved) = 3
    /\ saved[1].slot = 50
    /\ saved[2].slot = 50
    /\ saved[1].pixel # saved[2].pixel
    /\ latest = saved[2].pixel
    /\ remain.count = 0

\* C5: after a small-DIFF tag is decoded, `latest` is the pixel before the tag
\* plus (dr, dg, db, 0), dr = ((tag>>4)&3) - 2, dg = ((tag>>2)&3) - 2,
\* db = (tag&3) - 2, each lane modulo 256, alpha as it was.
C5_DiffWraps ==
    (stage = "reader" /\ chunk.op = "DIFF") =>
        LET t  == chunk.tag
            dr == ((t \div 16) % 4) - 2
            dg == ((t \div 4) % 4) - 2
            db == (t % 4) - 2
            b  == chunk.before
        IN  latest = << (b[1] + dr + 256) % 256,
                        (b[2] + dg + 256) % 256,
                        (b[3] + db + 256) % 256,
                        b[4] >>

\* C5 witness: (255,0,0,255) and dr = +1 give red 0.
C5_Witness ==
    /\ stage = "reader"
    /\ chunk.op = "DIFF"
    /\ chunk.tag = 122
    /\ chunk.before = <<255, 0, 0, 255>>
    /\ latest = <<0, 0, 0, 255>>

\* width 2, height 1, 4 channels; an RGB literal (10,20,30) and a RUN of 1
Scenario ==
    header_bytes(MAGIC, <<0, 0, 0, 2>>, <<0, 0, 0, 1>>, 4, 0) \o <<254, 10, 20, 30, 192>>

\* C6: after an RGB literal is decoded, `latest` is the three bytes that follow
\* the tag with the alpha `latest` had before the tag, which is 255 for the
\* first chunk of a stream; the scenario decodes to (10,20,30,255) twice.
C6_RgbLiteralKeepsAlpha ==
    stage = "reader" =>
        /\ chunk.op = "RGB" =>
              /\ latest = << input[chunk.at + 2], input[chunk.at + 3],
                             input[chunk.at + 4], chunk.before[4] >>
              /\ (chunk.at = 14 => chunk.before[4] = 255)
        /\ (input = Scenario /\ ret.status = "io_error") =>
              out = <<10, 20, 30, 255, 10, 20, 30, 255>>

\* C6 witness: the scenario, read to its last byte.
C6_Witness ==
    /\ stage = "reader"
    /\ input = Scenario
    /\ pos = Len(input)
    /\ remain.count = 0
    /\ out = <<10, 20, 30, 255, 10, 20, 30, 255>>

\* C7: a source of at least 14 bytes whose first four are not "qoif" makes
\* QoiDecoder::new fail with a decoding error: no decoder and no reader exist,
\* exactly the 14 header bytes were taken and nothing was decoded.
C7_BadMagicRejected ==
    (Len(input) >= 14 /\ SubSeq(input, 1, 4) # MAGIC /\ stage # "start") =>
        /\ stage = "failed"
        /\ ret.call = "new"
        /\ ret.status = "decoding_error"
        /\ header = NoHeader
        /\ pos = 14
        /\ out = <<>>
        /\ chunk = NoChunk
        /\ saved = <<>>

\* C7 witness: a magic that differs in its last byte only, chunk bytes behind
\* the header, and the decoding error returned.
C7_Witness ==
    /\ stage = "failed"
    /\ ret.status = "decoding_error"
    /\ ret.msg = "qoif magic header not found"
    /\ Len(input) > 14
    /\ SubSeq(input, 1, 3) = SubSeq(MAGIC, 1, 3)

\* C8 (as claimed): a source of fewer than 14 bytes makes QoiDecoder::new fail
\* with the format error for a truncated header, not with an I/O error.
C8_ShortHeaderIsFormatError ==
    (Len(input) < 14 /\ stage # "start") =>
        /\ stage = "failed"
        /\ ret.status = "decoding_error"
        /\ ret.msg = "not enough bytes for header"

\* the big-endian value of four bytes
be_u32(b) == 16777216 * b[1] + 65536 * b[2] + 256 * b[3] + b[4]

\* C9: the header of a decoder holds the big-endian value of bytes 4..7 as its
\* width and of bytes 8..11 as its height, byte 12 as channels and byte 13 as
\* colorspace, and dimensions() returns (width, height), whatever follows the
\* header.
C9_HeaderFields ==
    stage \in {"decoder", "reader"} =>
        /\ header.width = be_u32(SubSeq(input, 5, 8))
        /\ header.height = be_u32(SubSeq(input, 9, 12))
        /\ header.channels = input[13]
        /\ header.colorspace = input[14]
        /\ ret.call = "dimensions" =>
              ret.dims = << be_u32(SubSeq(input, 5, 8)), be_u32(SubSeq(input, 9, 12)) >>

\* C9 witness: dimensions() returned (258, 65536) for the bytes 0,0,1,2 and
\* 0,1,0,0, with chunk bytes behind the header.
C9_Witness ==
    /\ stage = "decoder"
    /\ ret.call = "dimensions"
    /\ ret.dims = <<258, 65536>>
    /\ Len(input) > 14

\* C10 (as claimed): color_type() is RGB for 3 channels and RGBA for 4.
C10_ColorFromChannels ==
    ret.call = "color_type" =>
        ret.color = IF header.channels = 3 THEN "Rgb8" ELSE "Rgba8"

\* the pixels a chunk with this opcode and tag stands for
pixels_of(op, tag) == IF op = "RUN" THEN (tag % 64) + 1 ELSE 1

\* C11: a read call on a remainder that owes c bytes, with a buffer of L
\* bytes, returns n = min(L, c), writes exactly the first n positions of the
\* buffer and no other, leaves c - n bytes owed, and the bytes written go on
\* with the repeating pattern of the pixel's lanes where the call before
\* stopped; L may be 0 and may be smaller than the number of lanes.
C11_RemainderReadContract ==
    /\ [](stage = "reader" =>
            \A j \in 1 .. Len(out) - chunk.start :
                out[chunk.start + j] = latest[((j - 1) % header.channels) + 1])
    /\ [][ (stage = "reader" /\ ret'.call = "read" /\ ret'.status = "ok")
           => LET c == IF remain.count > 0
                       THEN remain.count
                       ELSE header.channels * pixels_of(chunk'.op, chunk'.tag)
                  n == Min(Len(buf'), c)
              IN  /\ ret'.n = n
                  /\ remain'.count = c - n
                  /\ out' = out \o SubSeq(buf', 1, n)
                  /\ \A k \in 1 .. n : buf'[k] # Untouched
                  /\ \A k \in n + 1 .. Len(buf') : buf'[k] = Untouched ]_vars

\* C11 witness: a run of 4-lane pixels read first with a buffer shorter than
\* one pixel and then with a buffer of 5 bytes, which takes the rest of the
\* rotated pattern, one whole copy and a part of the next.
C11_Witness ==
    /\ stage = "reader"
    /\ chunk.op = "RUN"
    /\ header.channels = 4
    /\ Len(buf) = 5
    /\ ret.n = 5
    /\ Len(out) - chunk.start = 7
    /\ remain.count > 0

\* bytes of one pixel in the layout a colour type names
bytes_per_pixel(color) == IF color = "Rgb8" THEN 3 ELSE 4

\* C12 (as claimed): the reader delivers every pixel in the layout that
\* color_type() advertises: with B the bytes per pixel of that colour type, a
\* chunk that has been delivered whole has given B bytes per pixel, and they
\* are lanes 0 .. B-1 of the pixel, pixel after pixel.
C12_LayoutAsAdvertised ==
    (stage = "reader" /\ header.channels \in {3, 4} /\ chunk.op # "none")
    => LET B == bytes_per_pixel(color_type_of(header))
       IN  /\ remain.count = 0
              => Len(out) - chunk.start = B * pixels_of(chunk.op, chunk.tag)
           /\ \A j \in 1 .. Len(out) - chunk.start :
                  out[chunk.start + j] = latest[((j - 1) % B) + 1]

\* C13 (as claimed): after every chunk decoded, of whatever kind, the cache
\* slot that `latest` hashes to holds `latest`.
C13_LatestIsCached ==
    (stage = "reader" /\ chunk.op # "none") => pixels[hash(latest)] = latest

\* C13 (amended): the cache slot that `latest` hashes to holds `latest` after
\* every chunk decoded once a literal, DIFF, LUMA or INDEX chunk has been
\* decoded; a RUN saves nothing, so after a RUN decoded before any of those
\* `latest` is still (0,0,0,255) and its slot 53 is still all zero.
C13_LatestIsCachedOnceSaved ==
    stage = "reader" =>
        /\ saved # <<>> => pixels[hash(latest)] = latest
        /\ (chunk.op # "none" /\ saved = <<>>)
           => (chunk.op = "RUN" /\ latest = INIT /\ pixels[hash(INIT)] = ZERO)

\* C13 witness: a RUN decoded after a pixel was saved; the slot of `latest`
\* holds it.
C13_Witness ==
    /\ stage = "reader"
    /\ chunk.op = "RUN"
    /\ saved # <<>>
    /\ latest # INIT
    /\ pixels[hash(latest)] = latest

\* a read call that decodes a chunk with opcode op
Decodes(op) ==
    /\ stage = "reader"
    /\ remain.count = 0
    /\ ret'.call = "read"
    /\ ret'.status = "ok"
    /\ chunk'.op = op
    /\ chunk'.at = pos

\* C14 (as claimed): decoding an INDEX chunk leaves all 64 cache slots as they
\* were; only `latest` changes.
C14_IndexKeepsCache ==
    [][ Decodes("INDEX") => pixels' = pixels ]_vars

\* C14 (amended): decoding an INDEX chunk with index i makes `latest` the
\* pixel of slot i and leaves slots 1 .. 63 as they were; slot 0 is left as it
\* was when slot i holds a pixel that is not all zero, and becomes all zero
\* when slot i is all zero (the all-zero pixel is saved into its own slot 0).
C14_IndexKeepsCacheButSlotZero ==
    [][ Decodes("INDEX")
        => LET i == chunk'.tag % 64
           IN  /\ latest' = pixels[i]
               /\ \A j \in 1 .. 63 : pixels'[j] = pixels[j]
               /\ pixels'[0] = IF pixels[i] = ZERO THEN ZERO ELSE pixels[0] ]_vars

\* C14 witness: with (64,0,0,0) in slot 0 and a pixel in slot 50, INDEX 50 has
\* saved that pixel into slot 50 again and slot 0 still holds (64,0,0,0).
C14_Witness ==
    /\ stage = "reader"
    /\ chunk.op = "INDEX"
    /\ chunk.tag = 50
    /\ Len(saved) = 3
    /\ saved[1].pixel = <<64, 0, 0, 0>>
    /\ saved[2].slot = 50
    /\ saved[3] = saved[2]
    /\ pixels[0] = <<64, 0, 0, 0>>
    /\ pixels[50] = latest

\* C15: after a LUMA tag and the byte that follows it are decoded, `latest`
\* is the pixel before the tag plus (dr, dg, db, 0), dg = (tag & 63) - 32,
\* dr = (high nibble - 8) + dg, db = (low nibble - 8) + dg, each lane modulo
\* 256 and alpha as it was; the pixel is the one saved last and its cache slot
\* holds it.
C15_LumaWraps ==
    (stage = "reader" /\ chunk.op = "LUMA") =>
        LET second == input[chunk.at + 2]
            dg == (chunk.tag % 64) - 32
            dr == ((second \div 16) - 8) + dg
            db == ((second % 16) - 8) + dg
            b  == chunk.before
        IN  /\ latest = << (b[1] + dr + 256) % 256,
                           (b[2] + dg + 256) % 256,
                           (b[3] + db + 256) % 256,
                           b[4] >>
            /\ saved # <<>>
            /\ saved[Len(saved)].pixel = latest
            /\ pixels[hash(latest)] = latest
            /\ pos = chunk.at + 2

\* C15 witness: (255,255,255,0), dg = +31 and dr = db = +38 wrap to (37,30,37,0).
C15_Witness ==
    /\ stage = "reader"
    /\ chunk.op = "LUMA"
    /\ chunk.tag = 191
    /\ input[chunk.at + 2] = 255
    /\ chunk.before = <<255, 255, 255, 0>>
    /\ latest = <<37, 30, 37, 0>>

\* the opcode table of the format
opcode_of(tag) ==
    CASE tag = 255 -> "RGBA"
      [] tag = 254 -> "RGB"
      [] tag \in 192 .. 253 -> "RUN"
      [] tag \in 128 .. 191 -> "LUMA"
      [] tag \in 64 .. 127 -> "DIFF"
      [] tag \in 0 .. 63 -> "INDEX"

\* the source bytes an opcode takes after its tag
follow_of(op) ==
    CASE op = "RGBA" -> 4
      [] op = "RGB" -> 3
      [] op = "LUMA" -> 1
      [] OTHER -> 0

\* C16: a read call that decodes a chunk takes the one opcode the table gives
\* for the tag byte at the source position (0xFF RGBA, 0xFE RGB, other
\* 11xxxxxx RUN, 10xxxxxx LUMA, 01xxxxxx DIFF, 00xxxxxx INDEX) and consumes the
\* tag and the opcode's fixed number of following bytes (4, 3, 0, 1, 0, 0); a
\* RUN owes between 1 and 62 pixels.
C16_TagDispatch ==
    [][ (stage = "reader" /\ remain.count = 0 /\ ret'.call = "read" /\ ret'.status = "ok")
        => LET tag == input[pos + 1]
               op  == opcode_of(tag)
           IN  /\ chunk'.at = pos
               /\ chunk'.tag = tag
               /\ chunk'.op = op
               /\ pos' = pos + 1 + follow_of(op)
               /\ remain'.count + ret'.n
                    = header.channels * (IF op = "RUN" THEN (tag % 64) + 1 ELSE 1)
               /\ op = "RUN" => (tag % 64) + 1 \in 1 .. 62 ]_vars

\* C16 witness: tag 0xFD is the longest RUN, 62 pixels, and takes no byte
\* after the tag.
C16_Witness ==
    /\ stage = "reader"
    /\ chunk.op = "RUN"
    /\ chunk.tag = 253
    /\ pos = chunk.at + 1
    /\ (Len(out) - chunk.start) + remain.count = 62 * header.channels

\* C17 (as claimed): for every pixel the cache hash is computed without an
\* overflow trap, lies in 0 .. 63, and is the unbounded sum 3r + 5g + 7b + 11a
\* modulo 64.
C17_HashTotalInRange ==
    (stage = "pixel" /\ ret.call = "hash") =>
        /\ ret.status = "ok"
        /\ ret.n \in 0 .. 63
        /\ ret.n = (3 * latest[1] + 5 * latest[2] + 7 * latest[3] + 11 * latest[4]) % 64

\* the source ends before the chunk at position p is complete
cut_short(src, p) ==
    \/ p >= Len(src)
    \/ p + 1 + follow_of(opcode_of(src[p + 1])) > Len(src)

\* C18: a read call that has to decode a chunk whose tag or following bytes
\* the source no longer holds returns the source's error, writes nothing to
\* the caller's buffer and delivers nothing, and leaves the cache, `latest`
\* and the remainder as they were; only the source position moves on.
C18_ShortReadKeepsState ==
    [][ (stage = "reader" /\ remain.count = 0 /\ ret'.call = "read"
         /\ cut_short(input, pos))
        => /\ ret'.status = "io_error"
           /\ ret'.msg = "UnexpectedEof"
           /\ ret'.n = 0
           /\ out' = out
           /\ \A k \in 1 .. Len(buf') : buf'[k] = Untouched
           /\ pixels' = pixels
           /\ latest' = latest
           /\ remain' = remain
           /\ saved' = saved
           /\ pos' = Len(input) ]_vars

\* C18 witness: an RGBA literal cut after two of its four bytes, behind a
\* decoded literal; the read has failed with the source drained and `latest`
\* is still the pixel of the decoded literal.
C18_Witness ==
    /\ stage = "reader"
    /\ ret.call = "read"
    /\ ret.status = "io_error"
    /\ Len(saved) = 1
    /\ latest = saved[1].pixel
    /\ SubSeq(input, Len(input) - 2, Len(input)) = <<255, 1, 2>>
    /\ pos = Len(input)
    /\ Len(out) = header.channels

\* the bytes of the chunks decoded from the first p bytes of the source
decoded_out(p) ==
    read_to_end(QoiReader_new(14, header.channels), SubSeq(input, 1, p),
                header.channels).out

\* C19: a read call decodes at most one chunk, and none while bytes of the
\* current chunk are owed: then the source position, the cache, `latest` and
\* the chunk stay as they are and the call only hands out owed bytes.  So the
\* bytes delivered plus the bytes owed are always all the bytes of the chunks
\* decoded so far, zero-length reads included.
C19_NoByteLostOrRedecoded ==
    /\ [](stage = "reader" =>
            /\ Len(out) + remain.count = Len(decoded_out(pos))
            /\ IsPrefix(out, decoded_out(pos)))
    /\ [][ (stage = "reader" /\ ret'.call = "read")
           => /\ remain.count > 0
                 => /\ pos' = pos /\ chunk' = chunk /\ saved' = saved
                    /\ pixels' = pixels /\ latest' = latest
                    /\ remain'.count = remain.count - ret'.n
                    /\ Len(out') = Len(out) + ret'.n
              /\ (remain.count = 0 /\ ret'.status = "ok")
                 => /\ chunk'.at = pos
                    /\ chunk'.start = Len(out)
                    /\ pos' = pos + 1 + follow_of(chunk'.op)
                    /\ Len(saved') <= Len(saved) + 1 ]_vars

\* C19 witness: a read with an empty buffer has decoded a chunk and delivered
\* none of its bytes; all of them are owed.
C19_Witness ==
    /\ stage = "reader"
    /\ ret.call = "read"
    /\ ret.status = "ok"
    /\ Len(buf) = 0
    /\ chunk.op = "RGB"
    /\ chunk.start = Len(out)
    /\ remain.count = header.channels
    /\ Len(out) > 0

\* what is left to do: the source bytes not yet decoded, each worth more than
\* the longest remainder (62 pixels of 4 bytes), and the bytes owed
left_to_do(p, rem) == (Len(input) - p) * 249 + rem.count

\* C20: with 3 or 4 channels, a read call with a non-empty buffer fails or
\* delivers at least one byte and at most the buffer's length, never 0; each
\* such call that succeeds takes the reader strictly closer to the end of the
\* source, so a caller that fills a buffer with non-empty reads comes to an
\* end on every finite source, with the buffer full or with an error.
C20_Progress ==
    /\ []((stage = "reader" /\ ret.call = "read" /\ Len(buf) > 0)
            => \/ ret.status = "io_error"
               \/ ret.status = "ok" /\ ret.n \in 1 .. Len(buf))
    /\ [][ (stage = "reader" /\ ret'.call = "read" /\ ret'.status = "ok"
            /\ Len(buf') > 0)
           => /\ Len(out') = Len(out) + ret'.n
              /\ left_to_do(pos', remain') < left_to_do(pos, remain)
              /\ left_to_do(pos', remain') >= 0 ]_vars

\* C20 witness: a one-byte read has decoded a RUN of two pixels and
\* delivered its first byte.
C20_Witness ==
    /\ stage = "reader"
    /\ ret.call = "read"
    /\ ret.status = "ok"
    /\ Len(buf) = 1
    /\ ret.n = 1
    /\ chunk.op = "RUN"
    /\ chunk.tag = 193
    /\ Len(out) = chunk.start + 1
    /\ remain.count = 2 * header.channels - 1

====
